---- MODULE Spec2Model ----
(***************************************************************************)
(* State-machine model of web_app.py: the /generate and /submit handlers,  *)
(* the two generators, the JSON extractor clean_gemini_json and the quiz   *)
(* grading loop.                                                           *)
(*                                                                         *)
(* Python strings whose characters matter (answers, the count field, the   *)
(* source text, raw completions) are sequences of one-character strings.   *)
(* The completion service and json.loads are external: a completion is a   *)
(* record saying whether the HTTP call succeeded, whether the envelope had *)
(* the text field, and what json.loads made of the cleaned text (a JSON    *)
(* value or a parse error).                                                *)
(***************************************************************************)
EXTENDS Integers, Sequences, FiniteSets, TLC

VARIABLES decks, session, req, resp, api, extract, logic

vars == <<decks, session, req, resp, api, extract, logic>>

(***************************************************************************)
(* Bounds of the model.                                                    *)
(***************************************************************************)
\* Longest JSON array (questions or cards) a completion carries.
MaxItems == 2
\* Most decks the store holds before /generate stops being explored.
MaxDecks == 1
\* Longest num_questions field, in characters.
MaxNumLen == 2
\* Most tokens concatenated into a raw completion text for clean_gemini_json.
MaxParts == 3
\* generate_quiz_logic is called directly with counts in -MaxBelow..MaxCount+MaxAbove.
MaxBelow == 2
MaxAbove == 2

(***************************************************************************)
(* Program constants.                                                      *)
(***************************************************************************)
\* if count <= 0 or count > 50
MaxCount == 50
\* program_text[:50]
TopicLen == 50

(***************************************************************************)
(* Python string primitives.                                               *)
(***************************************************************************)
Whitespace == {" ", "\n"}

RECURSIVE lstrip(_)
lstrip(s) == IF s # <<>> /\ Head(s) \in Whitespace THEN lstrip(Tail(s)) ELSE s

RECURSIVE rstrip(_)
rstrip(s) ==
    IF s # <<>> /\ s[Len(s)] \in Whitespace
    THEN rstrip(SubSeq(s, 1, Len(s) - 1))
    ELSE s

\* str.strip()
strip(s) == rstrip(lstrip(s))

lower_char(c) == IF c = "A" THEN "a" ELSE IF c = "B" THEN "b" ELSE c

\* str.lower()
lower(s) == [i \in 1..Len(s) |-> lower_char(s[i])]

\* s.startswith(pat)
startswith(s, pat) == Len(pat) <= Len(s) /\ SubSeq(s, 1, Len(pat)) = pat

\* pat in s
RECURSIVE contains(_, _)
contains(s, pat) ==
    IF Len(s) < Len(pat) THEN FALSE
    ELSE startswith(s, pat) \/ contains(Tail(s), pat)

\* s.replace(pat, ""): non-overlapping occurrences, scanned left to right
RECURSIVE remove_all(_, _)
remove_all(s, pat) ==
    IF s = <<>> THEN <<>>
    ELSE IF startswith(s, pat) THEN remove_all(SubSeq(s, Len(pat) + 1, Len(s)), pat)
    ELSE <<Head(s)>> \o remove_all(Tail(s), pat)

\* s.find(c): 0-based index of the first c, -1 when absent
find(s, c) ==
    IF \E i \in 1..Len(s) : s[i] = c
    THEN (CHOOSE i \in 1..Len(s) : s[i] = c /\ \A j \in 1..(i - 1) : s[j] # c) - 1
    ELSE -1

\* A faulty rfind: the first occurrence instead of the last.
rfind_first(s, c) == find(s, c)

\* s.rfind(c): 0-based index of the last c, -1 when absent
rfind(s, c) ==
    IF \E i \in 1..Len(s) : s[i] = c
    THEN (CHOOSE i \in 1..Len(s) : s[i] = c /\ \A j \in (i + 1)..Len(s) : s[j] # c) - 1
    ELSE -1

\* s[start:stop] for 0 <= start, 0 <= stop
slice(s, start, stop) ==
    LET hi == IF stop > Len(s) THEN Len(s) ELSE stop
    IN  IF start >= hi THEN <<>> ELSE SubSeq(s, start + 1, hi)

(***************************************************************************)
(* clean_gemini_json                                                       *)
(***************************************************************************)
\* The backtick character (a one-character string, named because the lexer of
\* TLA+ does not take it inside a string).
BT == "backtick"
\* The fence marker, three backticks, and the JSON-tagged fence marker.
Fence == <<BT, BT, BT>>
FenceJson == <<BT, BT, BT, "j", "s", "o", "n">>

\* if FENCE in text: text = text.replace(FENCE + "json", "").replace(FENCE, "")
remove_fences(text) ==
    IF contains(text, Fence)
    THEN remove_all(remove_all(text, FenceJson), Fence)
    ELSE text

clean_gemini_json(raw) ==
    LET text == remove_fences(strip(raw))
        start_brace == find(text, "{")
        start_bracket == find(text, "[")
        isObject == start_brace # -1 /\ (start_bracket = -1 \/ start_brace < start_bracket)
        isArray == ~isObject /\ start_bracket # -1
        start == IF isObject THEN start_brace
                 ELSE IF isArray THEN start_bracket ELSE -1
        end == IF isObject THEN rfind(text, "}")
               ELSE IF isArray THEN rfind(text, "]") ELSE -1
    IN  IF start # -1 /\ end # -1 THEN slice(text, start, end + 1) ELSE text

\* Raw completion texts: concatenations of at most MaxParts tokens.
Tokens ==
    { FenceJson, Fence, <<BT>>, <<"{">>, <<"}">>, <<"[">>, <<"]">>, <<" ">>, <<"x">> }

RECURSIVE TextsOf(_)
TextsOf(n) ==
    IF n = 0 THEN { <<>> }
    ELSE LET shorter == TextsOf(n - 1)
         IN  shorter \cup { t \o k : t \in shorter, k \in Tokens }

RawTexts == TextsOf(MaxParts)

NoExtract == [called |-> FALSE]

\* One call of clean_gemini_json on the raw text drawn at the start.
CleanGeminiJson ==
    /\ ~extract.called
    /\ "raw" \in DOMAIN extract
    /\ extract' = [called |-> TRUE, raw |-> extract.raw, out |-> clean_gemini_json(extract.raw)]
    /\ UNCHANGED <<decks, session, req, resp, api, logic>>

(***************************************************************************)
(* JSON values, as json.loads returns them and as the session stores them. *)
(***************************************************************************)
Absent == [kind |-> "absent"]
JNull == [kind |-> "null"]
\* a non-zero number
JNum == [kind |-> "number"]
\* a non-empty string; mentions_questions: whether "questions" is a substring of it
JStr(mentions_questions) ==
    [kind |-> "string", nonempty |-> TRUE, mentions_questions |-> mentions_questions]
JStrEmpty == [kind |-> "string", nonempty |-> FALSE, mentions_questions |-> FALSE]
JList(items) == [kind |-> "list", items |-> items]
\* map: a function from the dict's keys to their values
JDict(map) == [kind |-> "dict", map |-> map]
EmptyMap == [k \in {} |-> JNull]
ParseError == [kind |-> "parse_error"]

SeqsUpTo(S, n) == UNION { [1..k -> S] : k \in 0..n }

\* Question objects a completion may carry: well formed, or lacking a key.
McqItem == [text |-> "Q-mcq", qtype |-> "mcq", answer |-> <<"A">>]
OpenItem == [text |-> "Q-open", qtype |-> "open", answer |-> <<"A">>]
UntypedItem == [text |-> "Q-untyped", answer |-> <<"A">>]
UnansweredItem == [text |-> "Q-unanswered", qtype |-> "mcq"]

\* Card objects a completion may carry: well formed, or lacking 'back'.
CardItems == { [front |-> "F", back |-> "B"], [front |-> "F"] }

ScalarValues == { JNull, JNum, JStr(TRUE), JStr(FALSE), JStrEmpty }

QuizValues(items, n) ==
    LET lists == { JList(q) : q \in SeqsUpTo(items, n) }
    IN  lists
        \cup { JDict([questions |-> v]) : v \in lists \cup { JNull, JNum } }
        \cup { JDict([other |-> JNum]), JDict(EmptyMap) }
        \cup ScalarValues

CardValues(n) ==
    { JList(c) : c \in SeqsUpTo(CardItems, n) }
        \cup { JDict([other |-> JNum]), JDict(EmptyMap) }
        \cup ScalarValues

\* What one call of the completion service comes to: the HTTP call fails, or the
\* envelope lacks candidates[0].content.parts[0].text, or the text is there and
\* json.loads(clean_gemini_json(text)) raises or returns a value.
CompletionsOf(values) ==
    { [http |-> "error"], [http |-> "ok", envelope |-> "bad"] }
        \cup { [http |-> "ok", envelope |-> "ok", parsed |-> v] : v \in values \cup { ParseError } }

NoCompletion == [http |-> "none"]

\* bool(v)
truthy(v) ==
    CASE v.kind = "list" -> v.items # <<>>
      [] v.kind = "dict" -> DOMAIN v.map # {}
      [] v.kind = "string" -> v.nonempty
      [] v.kind = "number" -> TRUE
      [] OTHER -> FALSE

\* The elements a for loop over v visits; a number or None is not iterable.
iterate(v) ==
    CASE v.kind = "list" -> [raised |-> FALSE, items |-> v.items]
      [] v.kind = "dict" ->
            [raised |-> FALSE,
             items |-> [i \in 1..Cardinality(DOMAIN v.map) |-> JStr(FALSE)]]
      [] v.kind = "string" ->
            [raised |-> FALSE,
             items |-> IF v.nonempty THEN <<JStr(FALSE)>> ELSE <<>>]
      [] OTHER -> [raised |-> TRUE, exc |-> "TypeError"]

(***************************************************************************)
(* generate_quiz_logic and generate_flashcards_logic                       *)
(***************************************************************************)
NoCall == [called |-> FALSE]

Raise(exc, call) == [raised |-> TRUE, exc |-> exc, call |-> call]
Return(value, call) == [raised |-> FALSE, value |-> value, call |-> call]

\* A faulty rounding: floor instead of ceil.
ceil_half_floor(n) == n \div 2

\* math.ceil(num_questions * 0.5)
ceil_half(n) == IF n % 2 = 0 THEN n \div 2 ELSE (n \div 2) + 1

\* A faulty selection: any shape without the key yields an empty question list.
select_questions_lenient(parsed) ==
    IF parsed.kind = "list" THEN [raised |-> FALSE, value |-> parsed]
    ELSE IF parsed.kind = "dict" /\ "questions" \in DOMAIN parsed.map
    THEN [raised |-> FALSE, value |-> parsed.map["questions"]]
    ELSE [raised |-> FALSE, value |-> JList(<<>>)]

\* isinstance(parsed, list) / "questions" in parsed / else
select_questions(parsed) ==
    IF parsed.kind = "list" THEN [raised |-> FALSE, value |-> parsed]
    ELSE IF parsed.kind = "dict"
    THEN IF "questions" \in DOMAIN parsed.map
         THEN [raised |-> FALSE, value |-> parsed.map["questions"]]
         ELSE [raised |-> TRUE, exc |-> "RuntimeError"]
    ELSE IF parsed.kind = "string"
    THEN IF parsed.mentions_questions
         THEN [raised |-> TRUE, exc |-> "TypeError"]
         ELSE [raised |-> TRUE, exc |-> "RuntimeError"]
    ELSE [raised |-> TRUE, exc |-> "TypeError"]

generate_quiz_logic(program_text, num_questions, completion) ==
    IF num_questions <= 0 THEN Raise("ValueError", NoCall)
    ELSE
      LET desired_mcq == ceil_half(num_questions)
          desired_open == num_questions - desired_mcq
          call == [called |-> TRUE, fn |-> "quiz", program_text |-> program_text,
                   num |-> num_questions, desired_mcq |-> desired_mcq,
                   desired_open |-> desired_open, completion |-> completion]
      IN  IF completion.http # "ok" THEN Raise("HTTPError", call)
          \* the except handler prints text, unbound when the envelope is bad: it raises too
          ELSE IF completion.envelope # "ok" THEN Raise("UnboundLocalError", call)
          ELSE IF completion.parsed = ParseError THEN Raise("RuntimeError", call)
          ELSE LET sel == select_questions(completion.parsed)
               IN  IF sel.raised THEN Raise("RuntimeError", call)
                   ELSE Return(sel.value, call)

generate_flashcards_logic(program_text, num_cards, completion) ==
    LET call == [called |-> TRUE, fn |-> "flashcards", program_text |-> program_text,
                 num |-> num_cards, completion |-> completion]
    IN  IF completion.http # "ok" THEN Raise("HTTPError", call)
        ELSE IF completion.envelope # "ok" THEN Raise("RuntimeError", call)
        ELSE IF completion.parsed = ParseError THEN Raise("RuntimeError", call)
        ELSE Return(completion.parsed, call)

(***************************************************************************)
(* /generate                                                               *)
(***************************************************************************)
\* Characters of the num_questions field. "sup2" is the one character
\* SUPERSCRIPT TWO: str.isdigit() accepts it, int() does not.
DecimalChars == { "0", "1", "2", "3", "4", "5", "6", "7", "8", "9" }
DigitChars == DecimalChars \cup { "sup2" }
NumChars == { "0", "5", "sup2", "x", " " }

\* str.isdigit()
isdigit(s) == s # <<>> /\ \A i \in 1..Len(s) : s[i] \in DigitChars

digit_value(c) ==
    CASE c = "0" -> 0 [] c = "1" -> 1 [] c = "2" -> 2 [] c = "3" -> 3 [] c = "4" -> 4
      [] c = "5" -> 5 [] c = "6" -> 6 [] c = "7" -> 7 [] c = "8" -> 8 [] c = "9" -> 9

RECURSIVE decimal_value(_)
decimal_value(s) ==
    IF s = <<>> THEN 0
    ELSE 10 * decimal_value(SubSeq(s, 1, Len(s) - 1)) + digit_value(s[Len(s)])

\* int(s): raises ValueError unless every character is a decimal digit
int(s) ==
    IF s # <<>> /\ \A i \in 1..Len(s) : s[i] \in DecimalChars
    THEN [raised |-> FALSE, value |-> decimal_value(s)]
    ELSE [raised |-> TRUE, exc |-> "ValueError"]

\* program_text[:50].replace("\n", " ") + "..."
title_of(program_text) ==
    LET head == slice(program_text, 0, TopicLen)
    IN  [i \in 1..Len(head) |-> IF head[i] = "\n" THEN " " ELSE head[i]] \o <<".", ".", ".">>

Redirect(flash, exc) == [kind |-> "redirect_index", flash |-> flash, exc |-> exc]

Outcome(d, s, r, a) == [decks |-> d, session |-> s, resp |-> r, api |-> a]

\* Flashcard(front=c['front'], back=c['back'], deck=new_deck) for every c
cards_of(items) ==
    IF \A i \in 1..Len(items) : { "front", "back" } \subseteq DOMAIN items[i]
    THEN [raised |-> FALSE,
          cards |-> [i \in 1..Len(items) |-> [front |-> items[i].front, back |-> items[i].back]]]
    ELSE [raised |-> TRUE, exc |-> "KeyError"]

\* the flashcards branch of generate_quiz
flashcards_path(program_text, count, completion, decks0, session0) ==
    LET g == generate_flashcards_logic(program_text, count, completion)
    IN  IF g.raised
        THEN Outcome(decks0, session0, Redirect("Errore Flashcard", g.exc), g.call)
        ELSE
          LET new_id == Len(decks0) + 1
              new_deck == [id |-> new_id, topic |-> title_of(program_text), cards |-> <<>>]
              \* db.session.add(new_deck); db.session.commit()
              committed == Append(decks0, new_deck)
              it == iterate(g.value)
              made == IF it.raised THEN it ELSE cards_of(it.items)
          IN  IF made.raised
              THEN Outcome(committed, session0, Redirect("Errore Flashcard", made.exc), g.call)
              ELSE Outcome(Append(decks0, [new_deck EXCEPT !.cards = made.cards]), session0,
                           [kind |-> "redirect_deck", deck_id |-> new_id], g.call)

\* the quiz branch of generate_quiz
quiz_path(program_text, count, completion, decks0, session0) ==
    LET g == generate_quiz_logic(program_text, count, completion)
    IN  IF g.raised
        THEN Outcome(decks0, session0, Redirect("Errore Quiz", g.exc), g.call)
        ELSE Outcome(decks0, g.value, [kind |-> "quiz_page", questions |-> g.value], g.call)

\* The handler of POST /generate. form: the fields as sent; completion: what the
\* completion service answers if it is called.
generate_quiz(form, completion, decks0, session0) ==
    LET program_text == strip(form.program_text)
        num_input == strip(form.num_questions)
    IN  IF program_text = <<>>
        THEN Outcome(decks0, session0,
                     Redirect("Devi incollare il contenuto del programma.", "none"), NoCall)
        ELSE IF ~isdigit(num_input)
        THEN Outcome(decks0, session0, Redirect("Numero non valido.", "none"), NoCall)
        ELSE IF int(num_input).raised
        THEN Outcome(decks0, session0, [kind |-> "error500", exc |-> "ValueError"], NoCall)
        ELSE
          LET count == int(num_input).value
          IN  IF count <= 0 \/ count > MaxCount
              THEN Outcome(decks0, session0,
                           Redirect("Il numero deve essere tra 1 e 50.", "none"), NoCall)
              ELSE IF form.action = "flashcards"
              THEN flashcards_path(program_text, count, completion, decks0, session0)
              ELSE quiz_path(program_text, count, completion, decks0, session0)

(***************************************************************************)
(* /submit                                                                 *)
(***************************************************************************)
\* request.form.get(f"q{i}", "")
form_get(form, i) == IF i \in DOMAIN form THEN form[i] ELSE <<>>

\* A faulty comparison: case-insensitive for every qtype.
is_correct_nocase(q, ans) == lower(ans) = lower(q.answer)

\* ans == q["answer"] for mcq, ans.lower() == q["answer"].lower() otherwise
is_correct(q, ans) ==
    IF q.qtype = "mcq" THEN ans = q.answer ELSE lower(ans) = lower(q.answer)

\* score += 1.0, the score counted in tenths of a point
score_correct(score10) == score10 + 10

\* A faulty penalty: the score clamped at zero.
score_wrong_clamped(score10) == IF score10 - 1 < 0 THEN 0 ELSE score10 - 1

\* score -= 0.1
score_wrong(score10) == score10 - 1

\* A faulty append: the entry put first.
details_append_front(details, q, ans, result) ==
    <<[text |-> q.text, user_answer |-> ans, correct_answer |-> q.answer, result |-> result]>>
        \o details

\* details.append({...})
details_append(details, q, ans, result) ==
    Append(details,
           [text |-> q.text, user_answer |-> ans, correct_answer |-> q.answer, result |-> result])

Crashed(exc) == [raised |-> TRUE, exc |-> exc]

\* q[key] on a dict lacking the key, or on an element that is no dict
lookup_error(q) == IF "kind" \in DOMAIN q THEN "TypeError" ELSE "KeyError"

\* One pass of the loop body for question q (index i, 0-based) on accumulator acc.
grade_step(acc, q, i, form) ==
    LET ans == strip(form_get(form, i))
        keys == DOMAIN q
    IN  IF ans = <<>>
        THEN IF { "text", "answer" } \subseteq keys
             THEN [acc EXCEPT !.blank = @ + 1,
                              !.details = details_append(@, q, ans, "blank")]
             ELSE Crashed(lookup_error(q))
        ELSE IF ~({ "qtype", "answer", "text" } \subseteq keys)
        THEN Crashed(lookup_error(q))
        ELSE IF is_correct(q, ans)
        THEN [acc EXCEPT !.score10 = score_correct(@), !.correct = @ + 1,
                         !.details = details_append(@, q, ans, "correct")]
        ELSE [acc EXCEPT !.score10 = score_wrong(@), !.wrong = @ + 1,
                         !.details = details_append(@, q, ans, "wrong")]

\* for i, q in enumerate(questions), from the 1-based position k on
RECURSIVE grade_loop(_, _, _, _)
grade_loop(acc, items, k, form) ==
    IF acc.raised \/ k > Len(items) THEN acc
    ELSE grade_loop(grade_step(acc, items[k], k - 1, form), items, k + 1, form)

\* f"{score:.2f}" of a score of score10 tenths
format_2f(score10) ==
    LET a == IF score10 < 0 THEN -score10 ELSE score10
    IN  [negative |-> score10 < 0, whole |-> a \div 10, cents |-> (a % 10) * 10]

\* A faulty pop: the pending set kept.
session_pop_keep(s) == s

\* session.pop("questions", None)
session_pop(s) == Absent

\* The handler of POST /submit.
submit_quiz(form, session0) ==
    \* session.get("questions") is None when the key is absent
    LET questions == IF session0 = Absent THEN JNull ELSE session0
    IN  IF ~truthy(questions)
        THEN [session |-> session0, resp |-> Redirect("Nessun quiz attivo.", "none")]
        ELSE
          LET it == iterate(questions)
              acc0 == [raised |-> FALSE, score10 |-> 0, correct |-> 0, wrong |-> 0,
                       blank |-> 0, details |-> <<>>]
              acc == IF it.raised THEN it ELSE grade_loop(acc0, it.items, 1, form)
          IN  IF acc.raised
              THEN [session |-> session0, resp |-> [kind |-> "error500", exc |-> acc.exc]]
              ELSE [session |-> session_pop(session0),
                    resp |-> [kind |-> "result_page", total |-> Len(it.items),
                              correct |-> acc.correct, wrong |-> acc.wrong,
                              blank |-> acc.blank, score |-> format_2f(acc.score10),
                              details |-> acc.details]]

(***************************************************************************)
(* Requests and their inputs.                                              *)
(***************************************************************************)
ProgramTexts == { <<>>, <<" ">>, <<"a", "\n", "b">> }
NumInputs == SeqsUpTo(NumChars, MaxNumLen)
ShortNums == SeqsUpTo(NumChars, 1)
Actions == { "quiz", "flashcards" }

\* Submitted answers; an index outside the form's domain is a missing field.
RawAnswers == { <<" ">>, <<" ", "a", " ">>, <<"A">>, <<"b">> }
Forms(answers, n) == UNION { [I -> answers] : I \in SUBSET (0..(n - 1)) }

GenerateWith(texts, nums, quizCompletions, cardCompletions) ==
    \E program_text \in texts, num_questions \in nums, action \in Actions :
      LET form == [program_text |-> program_text, num_questions |-> num_questions,
                   action |-> action]
          \* the completion service answers only if the handler gets to call it
          asked == generate_quiz(form, NoCompletion, decks, session).api.called
          answers == IF ~asked THEN { NoCompletion }
                     ELSE IF action = "flashcards" THEN cardCompletions
                     ELSE quizCompletions
      IN  \E completion \in answers :
            \E out \in { generate_quiz(form, completion, decks, session) } :
                /\ Len(out.decks) <= MaxDecks
                /\ decks' = out.decks
                /\ session' = out.session
                /\ resp' = out.resp
                /\ api' = out.api
                /\ req' = [route |-> "generate", form |-> form]
                /\ UNCHANGED <<extract, logic>>

SubmitWith(forms) ==
    \E form \in forms :
      \E out \in { submit_quiz(form, session) } :
          /\ session' = out.session
          /\ resp' = out.resp
          /\ api' = NoCall
          /\ req' = [route |-> "submit", form |-> form, questions |-> session]
          /\ UNCHANGED <<decks, extract, logic>>

NoLogic == [called |-> FALSE]

Init ==
    /\ decks = <<>>
    /\ session = Absent
    /\ req = [route |-> "none"]
    /\ resp = [kind |-> "none"]
    /\ api = NoCall
    /\ extract = NoExtract
    /\ logic = NoLogic

(***************************************************************************)
(* Spec: the application under every completion, short count fields and    *)
(* short forms.                                                            *)
(***************************************************************************)
QuizCompletions == CompletionsOf(QuizValues({ McqItem, UnansweredItem }, MaxItems))
CardCompletions == CompletionsOf(CardValues(1))
ShortForms == Forms({ <<"A">> }, MaxItems)

Generate == GenerateWith(ProgramTexts, ShortNums, QuizCompletions, CardCompletions)

Submit == SubmitWith(ShortForms)

Next == Generate \/ Submit

Spec == Init /\ [][Next]_vars

(***************************************************************************)
(* SpecGrade: quiz generation and grading under every form.                *)
(***************************************************************************)
AllForms == Forms(RawAnswers, MaxItems)

GradedCompletions == CompletionsOf(QuizValues({ McqItem, OpenItem, UntypedItem }, MaxItems))

GenerateQuestions == GenerateWith({ <<"a">> }, { <<"5">> }, GradedCompletions, {})

SubmitAnswers == SubmitWith(AllForms)

NextGrade == GenerateQuestions \/ SubmitAnswers

SpecGrade == Init /\ [][NextGrade]_vars

(***************************************************************************)
(* SpecValidate: /generate under every count field, array-free completions.*)
(***************************************************************************)
FlatQuizCompletions == CompletionsOf(QuizValues({}, 0))
FlatCardCompletions == CompletionsOf(CardValues(0))

GenerateValidated ==
    GenerateWith(ProgramTexts, NumInputs, FlatQuizCompletions, FlatCardCompletions)

NextValidate == GenerateValidated

SpecValidate == Init /\ [][NextValidate]_vars

(***************************************************************************)
(* SpecExtract: clean_gemini_json on every raw text.                       *)
(***************************************************************************)
InitExtract ==
    /\ decks = <<>>
    /\ session = Absent
    /\ req = [route |-> "none"]
    /\ resp = [kind |-> "none"]
    /\ api = NoCall
    /\ extract \in { [called |-> FALSE, raw |-> raw] : raw \in RawTexts }
    /\ logic = NoLogic

NextExtract == CleanGeminiJson

SpecExtract == InitExtract /\ [][NextExtract]_vars

(***************************************************************************)
(* SpecLogic: generate_quiz_logic called directly with any count.          *)
(***************************************************************************)
InitLogic ==
    /\ decks = <<>>
    /\ session = Absent
    /\ req = [route |-> "none"]
    /\ resp = [kind |-> "none"]
    /\ api = NoCall
    /\ extract = NoExtract
    /\ logic \in { [called |-> FALSE, num |-> n, completion |-> c] :
                      n \in (0 - MaxBelow)..(MaxCount + MaxAbove),
                      c \in FlatQuizCompletions }

\* One call of generate_quiz_logic with the count and completion drawn at the start.
CallQuizLogic ==
    /\ ~logic.called
    /\ "num" \in DOMAIN logic
    /\ logic' = [called |-> TRUE, num |-> logic.num,
                  out |-> generate_quiz_logic(<<"a">>, logic.num, logic.completion)]
    /\ UNCHANGED <<decks, session, req, resp, api, extract>>

NextLogic == CallQuizLogic

SpecLogic == InitLogic /\ [][NextLogic]_vars

(***************************************************************************)
(* Notions the properties are stated with, defined apart from the model.   *)
(***************************************************************************)
\* s without its leading and trailing whitespace
Trimmed(s) ==
    LET solid == { i \in 1..Len(s) : s[i] \notin Whitespace }
    IN  IF solid = {} THEN <<>>
        ELSE SubSeq(s, CHOOSE i \in solid : \A j \in solid : i <= j,
                       CHOOSE i \in solid : \A j \in solid : j <= i)

CasePairs == { { "a", "A" }, { "b", "B" } }

EqualIgnoringCase(a, b) ==
    /\ Len(a) = Len(b)
    /\ \A i \in 1..Len(a) : a[i] = b[i] \/ { a[i], b[i] } \in CasePairs

Occurs(c, s) == \E i \in 1..Len(s) : s[i] = c
FirstOf(c, s) == CHOOSE i \in 1..Len(s) : s[i] = c /\ \A j \in 1..Len(s) : s[j] = c => i <= j
LastOf(c, s) == CHOOSE i \in 1..Len(s) : s[i] = c /\ \A j \in 1..Len(s) : s[j] = c => j <= i

\* The bracket pair the extractor is to decide on: "{" "}" for an object, "[" "]" for
\* an array, none when neither opening bracket occurs.
DecidedPair(t) ==
    IF Occurs("{", t) /\ (~Occurs("[", t) \/ FirstOf("{", t) < FirstOf("[", t))
    THEN <<"{", "}">>
    ELSE IF Occurs("[", t) THEN <<"[", "]">>
    ELSE <<>>

\* A start and an end bracket are both found in t.
PairFound(t) ==
    /\ DecidedPair(t) # <<>>
    /\ Occurs(DecidedPair(t)[2], t)

GradedItems == req.questions.items
AnswerGiven(i) == IF (i - 1) \in DOMAIN req.form THEN req.form[i - 1] ELSE <<>>

\* The outcome the grading rule gives question q for the trimmed answer t.
RuleOutcome(q, t) ==
    IF t = <<>> THEN "blank"
    ELSE IF "qtype" \in DOMAIN q /\ q.qtype = "mcq"
    THEN IF t = q.answer THEN "correct" ELSE "wrong"
    ELSE IF EqualIgnoringCase(t, q.answer) THEN "correct" ELSE "wrong"

Graded == req.route = "submit" /\ resp.kind = "result_page"

CountOf(outcome) == Cardinality({ i \in 1..Len(resp.details) : resp.details[i].result = outcome })

\* The value, in tenths of a point, of a score printed with two decimals.
TenthsOf(score) ==
    (IF score.negative THEN -1 ELSE 1) * (score.whole * 10 + (score.cents \div 10))

ValidationMessages ==
    { "Devi incollare il contenuto del programma.", "Numero non valido.",
      "Il numero deve essere tra 1 e 50." }

IsCount(s) == s # <<>> /\ \A i \in 1..Len(s) : s[i] \in DecimalChars

\* The /generate input the interface calls invalid.
InvalidInput(form) ==
    \/ Trimmed(form.program_text) = <<>>
    \/ ~IsCount(Trimmed(form.num_questions))
    \/ decimal_value(Trimmed(form.num_questions)) \notin 1..MaxCount

(***************************************************************************)
(* Properties.                                                             *)
(***************************************************************************)

\* C1: a /generate request with action=flashcards that ends in the failure path
\* (flash message and redirect to the input form) leaves no deck in the store that
\* was not there before the request.
C1_NoDeckOnFailure ==
    [][ (/\ req'.route = "generate"
         /\ req'.form.action = "flashcards"
         /\ resp'.kind = "redirect_index")
        => decks' = decks ]_vars

\* C2: a successful quiz generation replaces the session's pending set with the
\* generated one; a submit that produces a Result removes the pending set; a submit
\* with no pending set produces no Result and answers 'no active quiz' with a
\* redirect; only a successful quiz generation creates a pending set, so two submits
\* with no successful quiz generation between them never both produce a Result.
C2_PendingLifecycle ==
    [][ /\ (req'.route = "generate" /\ resp'.kind = "quiz_page")
            => /\ session' = resp'.questions
               /\ session' = IF api'.completion.parsed.kind = "list"
                             THEN api'.completion.parsed
                             ELSE api'.completion.parsed.map["questions"]
        /\ (req'.route = "submit" /\ resp'.kind = "result_page") => session' = Absent
        /\ (req'.route = "submit" /\ session = Absent)
            => /\ resp' = Redirect("Nessun quiz attivo.", "none")
               /\ session' = Absent
        /\ (session = Absent /\ ~(req'.route = "generate" /\ resp'.kind = "quiz_page"))
            => session' = Absent
        /\ (Graded /\ req'.route = "submit") => resp'.kind # "result_page" ]_vars

C2_Witness ==
    /\ Graded
    /\ req.questions.kind = "list"
    /\ session = Absent

\* C3: in every Result, the outcome of the question at index i is the one the rule
\* gives: the submitted answer is trimmed, a missing entry counting as empty; empty is
\* blank; for mcq, correct iff the trimmed answer equals the answer exactly; otherwise
\* correct iff the two are equal ignoring case; else wrong.
C3_OutcomeRule ==
    Graded =>
        /\ Len(resp.details) = Len(GradedItems)
        /\ \A i \in 1..Len(GradedItems) :
              resp.details[i].result = RuleOutcome(GradedItems[i], Trimmed(AnswerGiven(i)))

C3_Witness ==
    /\ Graded
    /\ \E i \in 1..Len(GradedItems) :
          /\ GradedItems[i] = McqItem
          /\ AnswerGiven(i) = <<" ", "a", " ">>
          /\ resp.details[i].result = "wrong"
    /\ \E i \in 1..Len(GradedItems) :
          /\ GradedItems[i] = OpenItem
          /\ AnswerGiven(i) = <<" ", "a", " ">>
          /\ resp.details[i].result = "correct"

\* C4: every Result has correct + wrong + blank = total = the number of graded
\* questions, and one details entry per question, in the question order, carrying the
\* question's text and answer and the trimmed submitted answer; the number of entries
\* with each outcome equals the corresponding counter.
C4_ResultShape ==
    Graded =>
        /\ resp.total = Len(GradedItems)
        /\ resp.correct + resp.wrong + resp.blank = resp.total
        /\ Len(resp.details) = resp.total
        /\ \A i \in 1..Len(GradedItems) :
              /\ resp.details[i].text = GradedItems[i].text
              /\ resp.details[i].correct_answer = GradedItems[i].answer
              /\ resp.details[i].user_answer = Trimmed(AnswerGiven(i))
              /\ resp.details[i].result \in { "correct", "wrong", "blank" }
        /\ CountOf("correct") = resp.correct
        /\ CountOf("wrong") = resp.wrong
        /\ CountOf("blank") = resp.blank

C4_Witness ==
    /\ Graded
    /\ resp.total = 2
    /\ resp.details[1].text # resp.details[2].text
    /\ resp.correct = 1
    /\ resp.blank = 1

\* C5: the score of every Result, in tenths of a point, is 10 * correct - wrong; it is
\* not clamped, so it is negative whenever wrong > 10 * correct; an all-blank
\* submission scores 0.00.
C5_Score ==
    Graded =>
        /\ TenthsOf(resp.score) = 10 * resp.correct - resp.wrong
        /\ resp.score.cents % 10 = 0
        /\ resp.wrong > 10 * resp.correct => resp.score.negative
        /\ resp.blank = resp.total
            => resp.score = [negative |-> FALSE, whole |-> 0, cents |-> 0]

C5_Witness ==
    /\ Graded
    /\ resp.wrong > 0
    /\ resp.correct = 0
    /\ resp.score.negative

\* C6 (as stated): with the pair decided on the trimmed, fence-free text, whenever the
\* opening bracket and its closing bracket both occur the result runs from the first
\* opening bracket to the last closing bracket, and so begins with the one and ends
\* with the other.
C6_Original ==
    extract.called =>
        LET t == remove_fences(strip(extract.raw))
            pair == DecidedPair(t)
            out == extract.out
        IN  PairFound(t) =>
              /\ out = SubSeq(t, FirstOf(pair[1], t), LastOf(pair[2], t))
              /\ out # <<>>
              /\ out[1] = pair[1]
              /\ out[Len(out)] = pair[2]

\* C6 (amended): the text left after trimming holds no fence marker once they are
\* removed; with the pair decided on it, whenever the opening bracket and its closing
\* bracket both occur, the result runs from the first opening bracket to the last
\* closing bracket, beginning with the one and ending with the other, when that
\* closing bracket comes after the opening one, and is empty when it comes before.
C6_Extraction ==
    extract.called =>
        LET t == remove_fences(strip(extract.raw))
            pair == DecidedPair(t)
            out == extract.out
        IN  /\ ~contains(t, Fence)
            /\ PairFound(t) =>
                  IF FirstOf(pair[1], t) < LastOf(pair[2], t)
                  THEN /\ out = SubSeq(t, FirstOf(pair[1], t), LastOf(pair[2], t))
                       /\ out[1] = pair[1]
                       /\ out[Len(out)] = pair[2]
                  ELSE out = <<>>

C6_Witness ==
    /\ extract.called
    /\ extract.raw = <<"{", "}", "}">>
    /\ extract.out = <<"{", "}", "}">>

\* C7: when no start/end bracket pair is found, the result is the whitespace-trimmed
\* input, unchanged, fence markers included.
C7_TrimmedInputReturned ==
    (extract.called /\ ~PairFound(remove_fences(strip(extract.raw))))
        => extract.out = Trimmed(extract.raw)

\* C8: quiz generation succeeds on a response that parses to a bare array, returning
\* it, or to an object with a 'questions' key, returning that value; on every other
\* parsed shape, and on a response that does not parse or does not arrive, it fails
\* with the quiz error message and the session's pending set is not replaced.
C8_QuizShapes ==
    [][ (req'.route = "generate" /\ api'.called /\ api'.fn = "quiz")
        => LET c == api'.completion
               parses == c.http = "ok" /\ c.envelope = "ok" /\ c.parsed # ParseError
           IN  IF parses /\ c.parsed.kind = "list"
               THEN /\ resp' = [kind |-> "quiz_page", questions |-> c.parsed]
                    /\ session' = c.parsed
               ELSE IF parses /\ c.parsed.kind = "dict" /\ "questions" \in DOMAIN c.parsed.map
               THEN /\ resp' = [kind |-> "quiz_page", questions |-> c.parsed.map["questions"]]
                    /\ session' = c.parsed.map["questions"]
               ELSE /\ resp'.kind = "redirect_index"
                    /\ resp'.flash = "Errore Quiz"
                    /\ session' = session ]_vars

C8_Witness ==
    /\ req.route = "generate"
    /\ resp.kind = "quiz_page"
    /\ api.completion.parsed.kind = "dict"
    /\ session = JList(<<McqItem>>)

\* C9: a /generate request whose text is empty after trimming, or whose count is not a
\* string of digits, or is outside 1..50, yields a validation message and a redirect
\* to the input form, issues no completion call and leaves the Deck Store and the
\* pending set unchanged; the generators are called only with non-empty text and a
\* count in 1..50.
C9_InvalidInputRejected ==
    [][ req'.route = "generate"
        => /\ InvalidInput(req'.form)
               => /\ resp'.kind = "redirect_index"
                  /\ resp'.flash \in ValidationMessages
                  /\ ~api'.called
                  /\ decks' = decks
                  /\ session' = session
           /\ api'.called => (api'.program_text # <<>> /\ api'.num \in 1..MaxCount) ]_vars

\* C10: for a count in 1..50 the targets satisfy desired_mcq + desired_open = count and
\* desired_mcq = ceil(count / 2), hence desired_open = floor(count / 2) and
\* 0 <= desired_open <= desired_mcq <= desired_open + 1; for a count <= 0 the generator
\* fails with ValueError before computing targets or calling the completion service.
C10_Targets ==
    logic.called =>
        /\ logic.num <= 0
            => /\ logic.out.raised
               /\ logic.out.exc = "ValueError"
               /\ logic.out.call = NoCall
        /\ logic.num \in 1..MaxCount
            => LET call == logic.out.call
                   m == call.desired_mcq
                   o == call.desired_open
               IN  /\ call.called
                   /\ call.num = logic.num
                   /\ m + o = logic.num
                   /\ 2 * m >= logic.num /\ 2 * (m - 1) < logic.num
                   /\ 2 * o <= logic.num /\ 2 * (o + 1) > logic.num
                   /\ 0 <= o /\ o <= m /\ m <= o + 1

C10_Witness ==
    /\ logic.called
    /\ logic.num = 5
    /\ logic.out.call.desired_mcq = 3
    /\ logic.out.call.desired_open = 2

====
